---------------------------- MODULE Spec2Model ----------------------------
(***************************************************************************)
(* insanely-fast-whisper.py: the precision decision taken before the ASR   *)
(* pipeline is built (check_fp16, asr_cli lines 45-51) and the SRT writer  *)
(* that follows the pipeline call (asr_cli lines 71-78,                    *)
(* seconds_to_srt_time_format).                                            *)
(*                                                                         *)
(* Python strings are sequences of one-character strings.  A timestamp is  *)
(* a record [type, ms]: type is the Python type of the value and ms, for a *)
(* number, the decimal value in milliseconds (the float is the binary64    *)
(* nearest to ms/1000).                                                    *)
(***************************************************************************)
EXTENDS Integers, Sequences, FiniteSets, TLC

VARIABLES
    pc,              \* position in asr_cli
    dtype,           \* --dtype option
    device,          \* --device option, [type, val]
    cuda_available,  \* what torch.cuda.is_available() answers now
    majors,          \* compute capability major of each visible device, index 0 first
    stdout,          \* dtypes printed by line 45
    torch_dtype,     \* torch_dtype given to pipeline() at line 51
    stderr,          \* diagnostics printed by check_fp16
    chunks,          \* outputs['chunks']
    index,           \* loop variable of line 73
    prev,            \* accumulator of line 72
    start_time,      \* line 74
    end_time,        \* line 75
    srt_file,        \* characters written to the .srt file
    fed              \* the values of `seconds` that reached line 85, in call order

vars == <<pc, dtype, device, cuda_available, majors, stdout, torch_dtype, stderr,
          chunks, index, prev, start_time, end_time, srt_file, fed>>

negVars == <<dtype, device, cuda_available, majors, stdout, torch_dtype, stderr>>
srtVars == <<chunks, index, prev, start_time, end_time, srt_file, fed>>

(***************************************************************************)
(* Bounds of the model.                                                    *)
(***************************************************************************)
MaxChunks == 2     \* longest chunk list the pipeline returns
MaxDevices == 2    \* most devices the host shows
MaxMillis == 2200  \* SpecFmt converts every value 0 .. MaxMillis ms

(***************************************************************************)
(* Strings.                                                                *)
(***************************************************************************)
DigitChars == <<"0", "1", "2", "3", "4", "5", "6", "7", "8", "9">>

RECURSIVE Pow2(_)
Pow2(n) == IF n = 0 THEN 1 ELSE 2 * Pow2(n - 1)

RECURSIVE Log2Floor(_)
Log2Floor(n) == IF n < 2 THEN 0 ELSE 1 + Log2Floor(n \div 2)

\* str(n) / f"{n}" of an int n >= 0
RECURSIVE Str(_)
Str(n) == IF n < 10 THEN <<DigitChars[n + 1]>>
          ELSE Str(n \div 10) \o <<DigitChars[(n % 10) + 1]>>

RECURSIVE Zeros(_)
Zeros(n) == IF n <= 0 THEN <<>> ELSE <<"0">> \o Zeros(n - 1)

\* f"{n:0<w>d}" of an int n >= 0: zero-padded to at least w digits, never cut
ZeroPad(n, w) == Zeros(w - Len(Str(n))) \o Str(n)

\* int() of a string of digits
DigitVal(c) == CHOOSE d \in 0..9 : DigitChars[d + 1] = c

IsDigits(s) == \A n \in 1..Len(s) : \E d \in 1..10 : DigitChars[d] = s[n]

RECURSIVE ParseNat(_)
ParseNat(s) == IF s = <<>> THEN 0
               ELSE 10 * ParseNat(SubSeq(s, 1, Len(s) - 1)) + DigitVal(s[Len(s)])

IsSpace(c) == c \in {" ", "\t", "\n", "\r"}

RECURSIVE LStrip(_)
LStrip(s) == IF s # <<>> /\ IsSpace(Head(s)) THEN LStrip(Tail(s)) ELSE s

RECURSIVE RStrip(_)
RStrip(s) == IF s # <<>> /\ IsSpace(s[Len(s)]) THEN RStrip(SubSeq(s, 1, Len(s) - 1)) ELSE s

\* str.strip()
Strip(s) == RStrip(LStrip(s))

(***************************************************************************)
(* Python floats.  The binary64 nearest to k/1000 is M * 2^-sh with        *)
(* 2^52 <= M < 2^53, and equals (k + err * 2^-sh) / 1000 where             *)
(* err = 1000*M - k*2^sh, |err| < 500.  A float is carried as              *)
(* [ms, err, sh] standing for (ms + err * 2^-sh) / 1000; //, % and the     *)
(* subtraction of the integer part are exact on it, the multiplication by  *)
(* 1000 rounds to 53 bits.                                                 *)
(***************************************************************************)
RECURSIVE PowMod(_, _, _)
PowMod(b, e, m) == IF e = 0 THEN 1 % m ELSE (b * PowMod(b, e - 1, m)) % m

\* the least n with k * 2^n >= 1000, for 1 <= k < 1000
RECURSIVE UpShift(_, _)
UpShift(k, n) == IF k * Pow2(n) >= 1000 THEN n ELSE UpShift(k, n + 1)

\* sh such that 2^52 <= (k/1000) * 2^sh < 2^53
ShiftOf(k) == IF k >= 1000 THEN 52 - Log2Floor(k \div 1000) ELSE 52 + UpShift(k, 1)

\* the float whose decimal value is k ms (k >= 0)
Binary64(k) ==
    IF k = 0 THEN [ms |-> 0, err |-> 0, sh |-> 0]
    ELSE LET sh  == ShiftOf(k)
             rem == ((k % 1000) * PowMod(2, sh, 1000)) % 1000
         IN  [ms |-> k, err |-> IF rem < 500 THEN -rem ELSE 1000 - rem, sh |-> sh]

\* x // n
FloorDiv(x, n) == x.ms \div (n * 1000)

\* x % n
Mod(x, n) == [x EXCEPT !.ms = x.ms % (n * 1000)]

\* int(x)
Trunc(x) == x.ms \div 1000

\* x - n for an int n <= x
Minus(x, n) == [x EXCEPT !.ms = x.ms - n * 1000]

\* int(x * 1000) for 0 <= x < 1: the exact product is m + err * 2^-sh, and it is
\* rounded to the nearest binary64 before int() truncates it.  With
\* 2^j <= m < 2^(j+1), the binary64 next below m is m - 2^(j-52) (m - 2^(j-53)
\* when m = 2^j): a product below m is rounded up to m only from within half
\* of that distance, and is truncated to m - 1 otherwise
IntTimes1000(x) ==
    LET m == x.ms
    IN  IF x.err >= 0 THEN m
        ELSE LET j    == Log2Floor(m)
                 half == (IF m = Pow2(j) THEN j - 54 ELSE j - 53) + x.sh
             IN  IF half >= 0 /\ -x.err <= Pow2(half) THEN m ELSE m - 1

(***************************************************************************)
(* Timestamps and chunks.                                                  *)
(***************************************************************************)
Num(k) == [type |-> "float", ms |-> k]
None == [type |-> "NoneType", ms |-> 0]
NotANumber == [type |-> "str", ms |-> 0]
IntZero == [type |-> "int", ms |-> 0]

\* seconds the pipeline reports, in ms
StampMillis == {0, 1200}

\* offsets past a minute, an hour and a hundred hours, for SpecFmt
LongMillis == {3661001, 86399999, 360000500}

Stamps == {Num(k) : k \in StampMillis} \cup {None, NotANumber}

Texts == { <<" ", "h", "i", " ">>, <<"y", "o", "\n">> }

Chunk == [text : Texts, timestamp : Stamps \X Stamps]

ChunkLists == UNION {[1..n -> Chunk] : n \in 0..MaxChunks}

\* line 81
IsNumber(seconds) == seconds.type \in {"int", "float"}

\* Repair, were a numeric value below the accumulator replaced by the accumulator
RepairClampAs(p, seconds) ==
    IF ~IsNumber(seconds) THEN [prev |-> p, seconds |-> p]
    ELSE IF seconds.ms < p.ms THEN [prev |-> p, seconds |-> p]
    ELSE [prev |-> seconds, seconds |-> seconds]

\* Repair, were a missing value replaced by 0 instead of the accumulator
RepairZeroAs(p, seconds) ==
    IF ~IsNumber(seconds) THEN [prev |-> p, seconds |-> IntZero]
    ELSE [prev |-> seconds, seconds |-> seconds]

\* Repair, were the accumulator never updated
RepairKeepAs(p, seconds) ==
    IF ~IsNumber(seconds) THEN [prev |-> p, seconds |-> p]
    ELSE [prev |-> p, seconds |-> seconds]

\* lines 81-84: the pair (prev, seconds) after the if
Repair(p, seconds) ==
    IF ~IsNumber(seconds) THEN [prev |-> p, seconds |-> p]
    ELSE [prev |-> seconds, seconds |-> seconds]

\* lines 85-93: the string built from a number
TimeCode(seconds) ==
    LET x            == Binary64(seconds.ms)
        hours        == FloorDiv(x, 3600)
        s1           == Mod(x, 3600)
        minutes      == FloorDiv(s1, 60)
        s2           == Mod(s1, 60)
        milliseconds == IntTimes1000(Minus(s2, Trunc(s2)))
    IN  ZeroPad(hours, 2) \o <<":">> \o ZeroPad(minutes, 2) \o <<":">>
          \o ZeroPad(Trunc(s2), 2) \o <<",">> \o ZeroPad(milliseconds, 3)

\* lines 80-93
seconds_to_srt_time_format(p, seconds) ==
    LET r == Repair(p, seconds)
    IN  [prev |-> r.prev, seconds |-> r.seconds, text |-> TimeCode(r.seconds)]

\* CueText, were the cue numbered index instead of index + 1
CueTextIndexAs(i, st, et, chunk) ==
    Str(i) \o <<"\n">>
      \o st \o <<" ", "-", "-", ">", " ">> \o et \o <<"\n">>
      \o Strip(chunk.text) \o <<"\n", "\n">>

\* lines 76-78: what the three writes append for chunk number i (0-based)
CueText(i, st, et, chunk) ==
    Str(i + 1) \o <<"\n">>
      \o st \o <<" ", "-", "-", ">", " ">> \o et \o <<"\n">>
      \o Strip(chunk.text) \o <<"\n", "\n">>

(***************************************************************************)
(* The SRT writer, lines 71-78.                                            *)
(***************************************************************************)
\* line 73: the loop takes the next chunk
ForNext ==
    /\ pc = "for"
    /\ index < Len(chunks)
    /\ pc' = "line74"
    /\ UNCHANGED <<negVars, chunks, index, prev, start_time, end_time, srt_file, fed>>

\* line 73: the list is exhausted, the with block closes the file
ForExit ==
    /\ pc = "for"
    /\ index = Len(chunks)
    /\ pc' = "done"
    /\ UNCHANGED <<negVars, srtVars>>

\* line 74
FormatStart ==
    /\ pc = "line74"
    /\ LET r == seconds_to_srt_time_format(prev, chunks[index + 1].timestamp[1])
       IN  /\ prev' = r.prev
           /\ start_time' = r.text
           /\ fed' = Append(fed, r.seconds)
    /\ pc' = "line75"
    /\ UNCHANGED <<negVars, chunks, index, end_time, srt_file>>

\* line 75
FormatEnd ==
    /\ pc = "line75"
    /\ LET r == seconds_to_srt_time_format(prev, chunks[index + 1].timestamp[2])
       IN  /\ prev' = r.prev
           /\ end_time' = r.text
           /\ fed' = Append(fed, r.seconds)
    /\ pc' = "line76"
    /\ UNCHANGED <<negVars, chunks, index, start_time, srt_file>>

\* lines 76-78, then back to the loop head
WriteCue ==
    /\ pc = "line76"
    /\ srt_file' = srt_file \o CueText(index, start_time, end_time, chunks[index + 1])
    /\ index' = index + 1
    /\ pc' = "for"
    /\ UNCHANGED <<negVars, chunks, prev, start_time, end_time, fed>>

NextSrt == ForNext \/ ForExit \/ FormatStart \/ FormatEnd \/ WriteCue

\* "cuda:0" and "cpu"
DevCuda0 == <<"c", "u", "d", "a", ":", "0">>
DevCpu == <<"c", "p", "u">>

\* the state at line 72 of a run with the default options on a host without CUDA
InitSrtWith(cs) ==
    /\ pc = "for"
    /\ dtype = "float16"
    /\ device = [type |-> "str", val |-> DevCuda0]
    /\ cuda_available = FALSE
    /\ majors = <<>>
    /\ stdout = <<"float32">>
    /\ torch_dtype = "float32"
    /\ stderr = <<"no_cuda", "no_cuda">>
    /\ chunks = cs
    /\ index = 0
    /\ prev = IntZero
    /\ start_time = <<>>
    /\ end_time = <<>>
    /\ srt_file = <<>>
    /\ fed = <<>>

InitSrt == \E cs \in ChunkLists : InitSrtWith(cs)

SpecSrt == InitSrt /\ [][NextSrt]_vars

\* one chunk (k, None) for every k up to MaxMillis, and a few long offsets
InitFmt ==
    \E k \in (0..MaxMillis) \cup LongMillis :
        InitSrtWith(<<[text |-> <<"y", "o", "\n">>, timestamp |-> <<Num(k), None>>]>>)

SpecFmt == InitFmt /\ [][NextSrt]_vars


(***************************************************************************)
(* Properties of the SRT writer.                                           *)
(***************************************************************************)
HasValue(f) == f.type = "int" \/ f.type = "float"

\* the n-th timestamp field in traversal order: start, end of chunk 1, start, ...
Field(cs, n) == cs[(n + 1) \div 2].timestamp[IF n % 2 = 1 THEN 1 ELSE 2]

\* the most recent numeric field among the first n, or the int 0
RECURSIVE LastNumeric(_, _)
LastNumeric(cs, n) ==
    IF n = 0 THEN IntZero
    ELSE IF HasValue(Field(cs, n)) THEN Field(cs, n)
    ELSE LastNumeric(cs, n - 1)

\* fields converted so far
Processed ==
    2 * index + (IF pc = "line75" THEN 1 ELSE IF pc = "line76" THEN 2 ELSE 0)

NonDecreasingInput(cs) ==
    \A a, b \in 1..(2 * Len(cs)) :
        (a < b /\ HasValue(Field(cs, a)) /\ HasValue(Field(cs, b)))
            => Field(cs, a).ms <= Field(cs, b).ms

ZeroCode == <<"0", "0", ":", "0", "0", ":", "0", "0", ",", "0", "0", "0">>

\* the fields of a rendered H..H:MM:SS,mmm
CodeHours(tc) == SubSeq(tc, 1, Len(tc) - 10)
CodeMinutes(tc) == SubSeq(tc, Len(tc) - 8, Len(tc) - 7)
CodeSeconds(tc) == SubSeq(tc, Len(tc) - 5, Len(tc) - 4)
CodeMs(tc) == SubSeq(tc, Len(tc) - 2, Len(tc))

CodeMillis(tc) ==
    ParseNat(CodeHours(tc)) * 3600000 + ParseNat(CodeMinutes(tc)) * 60000
        + ParseNat(CodeSeconds(tc)) * 1000 + ParseNat(CodeMs(tc))

\* the number of whitespace characters t starts with, and ends with
Leading(t) ==
    CHOOSE a \in 0..Len(t) :
        /\ \A n \in 1..a : IsSpace(t[n])
        /\ a < Len(t) => ~IsSpace(t[a + 1])

Trailing(t) ==
    CHOOSE b \in 0..Len(t) :
        /\ \A n \in (Len(t) - b + 1)..Len(t) : IsSpace(t[n])
        /\ b < Len(t) => ~IsSpace(t[Len(t) - b])

\* t without its leading and trailing whitespace
Trimmed(t) ==
    IF Leading(t) = Len(t) THEN <<>>
    ELSE SubSeq(t, Leading(t) + 1, Len(t) - Trailing(t))

\* the code of every value the models convert, computed once
CodeTable == [k \in StampMillis \cup (0..MaxMillis) \cup LongMillis |-> TimeCode(Num(k))]

CodeOf(v) == CodeTable[v.ms]

\* the file holding the first n cues
RECURSIVE ExpectedFile(_, _)
ExpectedFile(cs, n) ==
    IF n = 0 THEN <<>>
    ELSE ExpectedFile(cs, n - 1)
           \o Str(n) \o <<"\n">>
           \o CodeOf(LastNumeric(cs, 2 * n - 1)) \o <<" ", "-", "-", ">", " ">>
           \o CodeOf(LastNumeric(cs, 2 * n)) \o <<"\n">>
           \o Trimmed(cs[n].text) \o <<"\n">>
           \o <<"\n">>

\* C3: the accumulator starts at 0 and after any prefix of the fields equals the
\* most recent numeric field of the prefix (0 if none); every field is converted
\* from that value, so a numeric field is used as-is and a missing or non-numeric
\* one is rendered from the unchanged accumulator; a missing start of the first
\* chunk is rendered 00:00:00,000.
C3_CarryForward ==
    /\ Len(fed) = Processed
    /\ prev = LastNumeric(chunks, Processed)
    /\ \A n \in 1..Len(fed) : fed[n] = LastNumeric(chunks, n)
    /\ pc \in {"line75", "line76"} =>
          start_time = CodeOf(LastNumeric(chunks, 2 * index + 1))
    /\ pc = "line76" => end_time = CodeOf(LastNumeric(chunks, 2 * index + 2))
    /\ (Len(fed) >= 1 /\ ~HasValue(chunks[1].timestamp[1])) =>
          /\ fed[1] = IntZero
          /\ index = 0 => start_time = ZeroCode
          /\ index >= 1 => SubSeq(srt_file, 3, 14) = ZeroCode

\* a missing field after a numeric one has been converted, and a run whose first
\* start is missing has written its first cue
C3_Witness ==
    /\ pc = "done"
    /\ Len(chunks) = 2
    /\ ~HasValue(chunks[1].timestamp[1])
    /\ chunks[1].timestamp[2] = Num(1200)
    /\ chunks[2].timestamp = <<NotANumber, None>>
    /\ prev = Num(1200)

\* C4: the file holds exactly one cue per chunk, in input order: cue i is the
\* line i, the line "start --> end" of the repaired times of chunk i, the text
\* of chunk i without leading and trailing whitespace, and a blank line; nothing
\* else is written, and at the end every chunk has its cue.
C4_CuesInOrder ==
    /\ index <= Len(chunks)
    /\ srt_file = ExpectedFile(chunks, index)
    /\ pc = "done" => index = Len(chunks)

C4_Witness ==
    /\ pc = "done"
    /\ Len(chunks) = 2
    /\ chunks[1].text = <<" ", "h", "i", " ">>
    /\ chunks[2].text = <<"y", "o", "\n">>
    /\ chunks[1].timestamp # chunks[2].timestamp
    /\ srt_file # <<>>

\* C5 as stated: the values fed into the conversions never decrease.
C5_AlwaysMonotone ==
    \A n \in 1..(Len(fed) - 1) : fed[n].ms <= fed[n + 1].ms

\* C5 amended: a missing or non-numeric field is fed the value fed before it
\* (0 for the first), and the values fed never decrease provided the numeric
\* source values do not decrease in traversal order.
C5_MonotoneIfInputIs ==
    /\ \A n \in 1..Len(fed) :
          ~HasValue(Field(chunks, n)) => fed[n] = (IF n = 1 THEN IntZero ELSE fed[n - 1])
    /\ NonDecreasingInput(chunks) =>
          \A n \in 1..(Len(fed) - 1) : fed[n].ms <= fed[n + 1].ms

C5_Witness ==
    /\ pc = "done"
    /\ Len(chunks) = 2
    /\ NonDecreasingInput(chunks)
    /\ chunks[1].timestamp = <<Num(1200), None>>
    /\ chunks[2].timestamp = <<None, Num(1200)>>

\* C6: the rendered fields decompose the value losslessly: minutes and seconds
\* are two digits in 0..59, milliseconds three digits, hours at least two
\* digits, and hours, minutes, seconds and milliseconds add up to the value.
C6_LosslessCode ==
    pc \in {"line75", "line76"} =>
        /\ Len(start_time) >= 12
        /\ IsDigits(CodeHours(start_time)) /\ IsDigits(CodeMinutes(start_time))
        /\ IsDigits(CodeSeconds(start_time)) /\ IsDigits(CodeMs(start_time))
        /\ start_time[Len(start_time) - 9] = ":" /\ start_time[Len(start_time) - 6] = ":"
        /\ start_time[Len(start_time) - 3] = ","
        /\ ParseNat(CodeMinutes(start_time)) <= 59
        /\ ParseNat(CodeSeconds(start_time)) <= 59
        /\ CodeMillis(start_time) = fed[Len(fed) - (IF pc = "line75" THEN 0 ELSE 1)].ms

\* C9: the accumulator changes only at a numeric field, which it takes as-is
\* even when smaller; when the numeric source values do not decrease, the
\* accumulator never decreases, every cue has start <= end and every cue ends
\* no later than the next one starts.
C9_Step ==
    /\ pc \in {"line74", "line75"} =>
          LET f == chunks[index + 1].timestamp[IF pc = "line74" THEN 1 ELSE 2]
          IN  /\ HasValue(f) => prev' = f /\ fed'[Len(fed')] = f
              /\ ~HasValue(f) => prev' = prev
    /\ pc \notin {"line74", "line75"} => prev' = prev
    /\ NonDecreasingInput(chunks) =>
          /\ prev'.ms >= prev.ms
          /\ pc' = "line76" =>
                /\ fed'[Len(fed') - 1].ms <= fed'[Len(fed')].ms
                /\ CodeMillis(start_time') <= CodeMillis(end_time')
          /\ (pc' = "line75" /\ index >= 1) =>
                /\ fed'[Len(fed') - 1].ms <= fed'[Len(fed')].ms
                /\ CodeMillis(end_time) <= CodeMillis(start_time')

C9_ConditionalMonotone == [][C9_Step]_vars

\* a run over non-decreasing input has finished, and so has one where a smaller
\* numeric value replaced the accumulator
C9_Witness ==
    /\ pc = "done"
    /\ Len(chunks) = 2
    /\ chunks[1].timestamp = <<Num(0), Num(0)>>
    /\ chunks[2].timestamp = <<Num(0), Num(1200)>>
    /\ NonDecreasingInput(chunks)
    /\ prev = Num(1200)

\* C10: a chunk whose end is missing or non-numeric gets a cue whose end code
\* is its start code, wherever it stands and whether or not its start is numeric.
C10_ZeroDuration ==
    /\ (pc = "line76" /\ ~HasValue(chunks[index + 1].timestamp[2])) =>
          end_time = start_time
    /\ \A n \in 1..index :
          ~HasValue(chunks[n].timestamp[2]) =>
              \E a \in 1..Len(srt_file), tc \in {CodeOf(fed[2 * n])} :
                  SubSeq(srt_file, a, a + 2 * Len(tc) + 4)
                      = tc \o <<" ", "-", "-", ">", " ">> \o tc

C10_Witness ==
    /\ pc = "done"
    /\ Len(chunks) = 2
    /\ chunks[1].timestamp = <<Num(1200), None>>
    /\ chunks[2].timestamp = <<NotANumber, NotANumber>>

(***************************************************************************)
(* The precision decision, check_fp16 and asr_cli lines 45-51.             *)
(***************************************************************************)
CudaPrefix == <<"c", "u", "d", "a", ":">>

StrDev(s) == [type |-> "str", val |-> s]
IntDev(n) == [type |-> "int", val |-> n]

\* --device values: cuda:0, cuda:1, cuda:9, cuda:-1, cuda:x, cuda: and cpu, and
\* the ints check_fp16 also takes
Devices ==
    {StrDev(DevCuda0), StrDev(CudaPrefix \o <<"1">>), StrDev(CudaPrefix \o <<"9">>),
     StrDev(CudaPrefix \o <<"-", "1">>), StrDev(CudaPrefix \o <<"x">>),
     StrDev(CudaPrefix), StrDev(DevCpu)}
        \cup {IntDev(n) : n \in {-1, 0, 1, 9}}

Dtypes == {"float16", "float32"}

\* compute capability majors a device may report
Majors == {6, 7, 8}

\* what the CUDA runtime shows: no device, or up to MaxDevices of them
Hosts == UNION {[1..n -> Majors] : n \in 0..MaxDevices}

\* s.startswith(p)
StartsWith(s, p) == Len(s) >= Len(p) /\ SubSeq(s, 1, Len(p)) = p

\* the position of the first c in s at or after position a, Len(s) + 1 if none
RECURSIVE Find(_, _, _)
Find(s, c, a) == IF a > Len(s) THEN Len(s) + 1
                 ELSE IF s[a] = c THEN a ELSE Find(s, c, a + 1)

\* s.split(':')[1] for an s holding a ':'
SplitSecond(s) ==
    LET a == Find(s, ":", 1)
        b == Find(s, ":", a + 1)
    IN  SubSeq(s, a + 1, b - 1)

\* int(t) of a string: surrounding whitespace, an optional sign, then digits
UnsignedPart(t) ==
    LET u == Strip(t)
    IN  IF u # <<>> /\ u[1] \in {"+", "-"} THEN Tail(u) ELSE u

IntParses(t) == UnsignedPart(t) # <<>> /\ IsDigits(UnsignedPart(t))

IntOf(t) ==
    IF Strip(t)[1] = "-" THEN 0 - ParseNat(UnsignedPart(t)) ELSE ParseNat(UnsignedPart(t))

\* lines 25-33, for a gpu_index: get_device_properties raises AssertionError
\* for an index that is no visible device
QueryMajor(gpu_index, mj) ==
    IF gpu_index < 0 \/ gpu_index >= Len(mj)
    THEN [kind |-> "return", value |-> FALSE, err |-> <<"bad_index">>]
    ELSE [kind |-> "return", value |-> (mj[gpu_index + 1] >= 7), err |-> <<>>]

\* lines 10-33: the value returned or the exception raised, and what was
\* printed to sys.stderr
check_fp16(dev, avail, mj) ==
    IF ~avail
    THEN [kind |-> "return", value |-> FALSE, err |-> <<"no_cuda">>]
    ELSE IF dev.type = "str" /\ StartsWith(dev.val, CudaPrefix)
    THEN IF IntParses(SplitSecond(dev.val))
         THEN QueryMajor(IntOf(SplitSecond(dev.val)), mj)
         ELSE [kind |-> "ValueError", value |-> FALSE, err |-> <<>>]
    ELSE IF dev.type = "int"
    THEN QueryMajor(dev.val, mj)
    ELSE [kind |-> "return", value |-> FALSE, err |-> <<"bad_format">>]

\* lines 45 and 51: torch.float16 if dtype == "float16" and check_fp16(device)
\* else torch.float32
EffectiveDtype(dt, dev, avail, mj) ==
    IF dt = "float16"
    THEN LET r == check_fp16(dev, avail, mj)
         IN  [kind |-> r.kind, err |-> r.err,
              value |-> IF r.value THEN "float16" ELSE "float32"]
    ELSE [kind |-> "return", err |-> <<>>, value |-> "float32"]

\* line 45: the dtype is evaluated and printed
PrintDtype ==
    /\ pc = "line45"
    /\ LET r == EffectiveDtype(dtype, device, cuda_available, majors)
       IN  /\ stderr' = stderr \o r.err
           /\ IF r.kind = "return"
              THEN pc' = "line48" /\ stdout' = Append(stdout, r.value)
              ELSE pc' = "aborted" /\ stdout' = stdout
    /\ UNCHANGED <<dtype, device, cuda_available, majors, torch_dtype, srtVars>>

\* lines 48-51: the dtype is evaluated again and given to pipeline()
BuildPipeline ==
    /\ pc = "line48"
    /\ LET r == EffectiveDtype(dtype, device, cuda_available, majors)
       IN  /\ stderr' = stderr \o r.err
           /\ IF r.kind = "return"
              THEN pc' = "loaded" /\ torch_dtype' = r.value
              ELSE pc' = "aborted" /\ torch_dtype' = torch_dtype
    /\ UNCHANGED <<dtype, device, cuda_available, majors, stdout, srtVars>>

\* the runtime's answers change while the program runs (a device is lost or
\* appears); is_available() and get_device_properties() ask the driver each time
HostChange ==
    /\ pc \in {"line45", "line48"}
    /\ \E mj \in Hosts :
          /\ mj # majors
          /\ majors' = mj
          /\ cuda_available' = (Len(mj) > 0)
    /\ UNCHANGED <<pc, dtype, device, stdout, torch_dtype, stderr, srtVars>>

NextNeg == PrintDtype \/ BuildPipeline \/ HostChange

InitNeg ==
    /\ pc = "line45"
    /\ dtype \in Dtypes
    /\ device \in Devices
    /\ majors \in Hosts
    /\ cuda_available = (Len(majors) > 0)
    /\ stdout = <<>>
    /\ torch_dtype = "unset"
    /\ stderr = <<>>
    /\ chunks = <<>>
    /\ index = 0
    /\ prev = IntZero
    /\ start_time = <<>>
    /\ end_time = <<>>
    /\ srt_file = <<>>
    /\ fed = <<>>

SpecNeg == InitNeg /\ [][NextNeg]_vars

(***************************************************************************)
(* Properties of the precision decision.                                   *)
(***************************************************************************)
\* the precision the last evaluation produced, "none" if it produced none
LastDecision ==
    IF pc = "line48" THEN stdout[Len(stdout)]
    ELSE IF pc = "loaded" THEN torch_dtype
    ELSE "none"

\* the device reference is an integer or "cuda:<integer>"
Recognised(dev) ==
    \/ dev.type = "int"
    \/ /\ dev.type = "str"
       /\ StartsWith(dev.val, CudaPrefix)
       /\ LET t == SubSeq(dev.val, Len(CudaPrefix) + 1, Len(dev.val))
          IN  \E n \in -1..9 : t = (IF n < 0 THEN <<"-">> \o Str(-n) ELSE Str(n))

IndexOf(dev) ==
    IF dev.type = "int" THEN dev.val
    ELSE CHOOSE n \in -1..9 :
            SubSeq(dev.val, Len(CudaPrefix) + 1, Len(dev.val))
                = (IF n < 0 THEN <<"-">> \o Str(-n) ELSE Str(n))

InRange(dev, mj) == Recognised(dev) /\ IndexOf(dev) >= 0 /\ IndexOf(dev) < Len(mj)

Table(dt, dev, avail, mj) ==
    IF dt = "float16" /\ avail /\ InRange(dev, mj) /\ mj[IndexOf(dev) + 1] >= 7
    THEN "float16" ELSE "float32"

\* C1: every evaluation of the decision yields the precision of the table:
\* float16 exactly when float16 is requested, the runtime is available, the
\* device resolves to a visible index and its major is >= 7; float32 otherwise.
C1_DecisionTable ==
    [][pc' # pc => LastDecision' = Table(dtype, device, cuda_available, majors)]_vars

\* C2: no evaluation aborts the run: each returns a precision, and float32
\* when the device reference does not parse or the query for its index fails.
C2_NeverAborts ==
    [][pc' # pc =>
          /\ pc' # "aborted"
          /\ LastDecision' \in Dtypes
          /\ (~Recognised(device) \/ ~InRange(device, majors)) => LastDecision' = "float32"]_vars

\* C7: the precision given to the pipeline is the one printed at startup.
C7_DecidedOnce ==
    pc = "loaded" => (Len(stdout) = 1 /\ torch_dtype = stdout[1])

\* C8: an evaluation on a host without the runtime, with an unrecognised
\* device reference or an index out of range prints a diagnostic to stderr and
\* yields float32, whatever precision is requested; one on a visible device
\* whose major is below 7 prints nothing.
C8_DiagnosticEmitted ==
    [][pc' # pc =>
          /\ (~cuda_available \/ ~Recognised(device) \/ ~InRange(device, majors)) =>
                /\ Len(stderr') > Len(stderr)
                /\ LastDecision' = "float32"
          /\ (cuda_available /\ InRange(device, majors)
                /\ majors[IndexOf(device) + 1] < 7) =>
                /\ stderr' = stderr
                /\ LastDecision' = "float32"]_vars

=============================================================================
